---- MODULE Spec2Model ----
(***************************************************************************)
(* The host agent of distributed_agent: the BackendClient run loop with    *)
(* its reconnect backoff, heartbeat and reader tasks, the                  *)
(* AgentOrchestrator command handlers, and the DockerManager and           *)
(* TunnelManager bookkeeping they drive.                                   *)
(*                                                                         *)
(* The agent runs on one asyncio event loop.  A handler runs without       *)
(* interruption until it awaits the socket send of its outbound event, so  *)
(* each handler is modelled by the step up to that await and the step      *)
(* that resumes after it.  The Docker daemon, the frpc children, the       *)
(* backend peer and the operator's signals are the environment.            *)
(***************************************************************************)
EXTENDS Integers, Sequences, FiniteSets, TLC

\* ------------------------------------------------------------- bounds
\* Containers the Docker daemon creates in one run.
MaxContainers == 2
\* Tunnel creations (config file + frpc spawn attempts) in one run.
MaxTunnels == 2
\* Reconnect delays slept between two established sessions.
MaxDials == 6

\* ---------------------------------------------------------- constants
\* The cap of the reconnect delay, in seconds ("Max 5 minutes").
MaxDelay == 300
\* The largest exponent of the backoff.
MaxExponent == 5
\* BackendConfig.reconnect_delay_seconds, default.
DefaultReconnectDelay == 5
\* NodeConfig.heartbeat_interval_seconds, default (5 s), in milliseconds.
DefaultHeartbeatMs == 5000

\* --------------------------------------------------------- input sets
\* rental_id is any str of the command payload; "" is accepted by the
\* pydantic model and is falsy in Python.
RentalIds == {"", "r1"}
ContainerIds == 1..MaxContainers
TunnelIds == 1..MaxTunnels
\* Image references and glob patterns, as sequences of characters.
ImgTorch == <<"p", ":", "2">>
ImgEvil == <<"e", ":", "1">>
Images == {ImgTorch, ImgEvil}
PatTorch == <<"p", ":", "*">>
PatEvil == <<"e", "*">>
\* DockerConfig.allowed_images as configured at start.
DefaultAllowed == {PatTorch}
\* Values of reconnect_delay_seconds (>= 1, no upper limit in the config).
Bases == {1, 5, 10, 400}
\* Values of max_reconnect_attempts (0 = infinite).
MaxAttempts == {0, 3}
\* max_reconnect_attempts of the agent whose commands are followed.
GiveUpAfter == 2
\* AgentConfigData.heartbeat_interval_ms, default.
ConfigHeartbeatMs == 5000
\* The heartbeat_interval_ms member of an update_config's config: left
\* out (<<>>) or carrying a value.
HeartbeatMsInputs == {<<>>, <<0>>, <<500>>, <<2000>>}
\* allowed_images lists an update_config may carry ({} = field left empty).
AllowedInputs == {{}, {PatEvil}}

\* proxy_port_mapping of a start_instance: container port -> proxy port
\* (dict[str, int]; any int passes the payload's validation).
PortKeys == {"22", "80", "8080"}
PortValues == {0, 2222, 30080}
PortMappings ==
    UNION {[keys -> PortValues] : keys \in SUBSET PortKeys}
\* The ssh port reported when the mapping has no entry for "22".
DefaultSshPort == 22

Min(a, b) == IF a <= b THEN a ELSE b

EmptyMap == [x \in {} |-> 0]
MapPut(f, k, v) == [x \in DOMAIN f \cup {k} |-> IF x = k THEN v ELSE f[x]]
MapDel(f, k) == [x \in DOMAIN f \ {k} |-> f[x]]

\* Python truthiness of a str.
Truthy(s) == s # ""

VARIABLES
    \* BackendClient
    connection,        \* "none" | "open" | "closed" (closed by the peer)
    connected,         \* _connected
    should_run,        \* _should_run
    reconnect_count,   \* _reconnect_count
    status,            \* _status
    heartbeat_ms,      \* heartbeat_interval, in milliseconds
    reconnect_delay,   \* reconnect_delay (the configured base)
    max_reconnect_attempts,
    \* control flow of run() and of the two tasks it spawns
    rl,                \* run(): "init" | "head" | "sleep" | "serving" | "exited" | "stopped"
    hb,                \* heartbeat task: "none" | "alive"
    listen,            \* reader task: "none" | "recv" (awaits a frame) | "send"
    pend,              \* what the handler suspended in send resumes with
    \* DockerManager and the daemon
    active_containers, \* _active_containers: rental_id -> container_id
    docker,            \* the daemon's containers, by id
    allowed_images,    \* config.allowed_images
    \* TunnelManager and its children
    active_tunnels,    \* _active_tunnels: rental_id -> process
    tunnel_configs,    \* _tunnel_configs: rental_id -> config file
    procs,             \* frpc children, by id
    files,             \* config files on disk
    tunnel_seq,        \* number of config files generated so far
    frpc_path,         \* _frpc_path cache: "none" | "resolved"
    frpc_installed,    \* whether an executable frpc can be found
    \* observation
    delays,            \* delays slept since the last established session
    after_loss,        \* the current stretch began with a session loss
    call               \* the last call of a function followed on its own

vars == <<connection, connected, should_run, reconnect_count, status,
          heartbeat_ms, reconnect_delay, max_reconnect_attempts,
          rl, hb, listen, pend,
          active_containers, docker, allowed_images,
          active_tunnels, tunnel_configs, procs, files, tunnel_seq,
          frpc_path, frpc_installed,
          delays, after_loss, call>>

clientVars == <<connection, connected, should_run, reconnect_count, status,
                heartbeat_ms, reconnect_delay, max_reconnect_attempts>>
dockerVars == <<active_containers, docker, allowed_images>>
tunnelVars == <<active_tunnels, tunnel_configs, procs, files, tunnel_seq,
                frpc_path, frpc_installed>>
obsVars == <<delays, after_loss, call>>

\* ------------------------------------------------------- BackendClient
Statuses == {"online", "busy", "maintenance", "offline"}

\* BackendClient.is_connected
IsConnected == connected /\ connection # "none"

\* BackoffDelay without the min(count, 5) of the exponent.
BackoffDelayUnboundedExponent(base, count) ==
    Min(base * (2 ^ count), MaxDelay)

\* The delay run() sleeps after a failed dial, with count the value of
\* _reconnect_count after its increment.
BackoffDelay(base, count) ==
    Min(base * (2 ^ Min(count, MaxExponent)), MaxDelay)

\* GiveUp without the test for max_reconnect_attempts = 0 (infinite).
GiveUpIgnoresInfinite(max_attempts, count) == count >= max_attempts

\* GiveUp one attempt late.
GiveUpOneLate(max_attempts, count) ==
    max_attempts > 0 /\ count > max_attempts

\* run() breaks out of its loop after a failed dial, with count the value
\* of _reconnect_count after its increment.
GiveUp(max_attempts, count) ==
    max_attempts > 0 /\ count >= max_attempts

\* The delay run() sleeps after the loss of an established session.
LostDelay(base) == base

\* -------------------------------------------------------- DockerManager
\* fnmatch.fnmatch on a POSIX host: "*" matches any run of characters,
\* "?" any one character, anything else itself.
RECURSIVE Fnmatch(_, _)
Fnmatch(name, pat) ==
    IF pat = <<>> THEN name = <<>>
    ELSE IF Head(pat) = "*"
         THEN IF Fnmatch(name, Tail(pat)) THEN TRUE
              ELSE name # <<>> /\ Fnmatch(Tail(name), pat)
    ELSE IF name = <<>> THEN FALSE
    ELSE IF Head(pat) = "?" \/ Head(pat) = Head(name)
         THEN Fnmatch(Tail(name), Tail(pat))
    ELSE FALSE

\* is_image_allowed on the allow-list the agent was started with.
is_image_allowedAtStartup(image, allowed) ==
    \E pattern \in DefaultAllowed : Fnmatch(image, pattern)

\* DockerManager.is_image_allowed, on config.allowed_images
is_image_allowed(image, allowed) ==
    \E pattern \in allowed : Fnmatch(image, pattern)

NoContainer == [rental |-> "", image |-> <<>>, state |-> "absent"]

\* Containers the daemon has ever created (a removed one keeps its id).
Created(dk) == {c \in DOMAIN dk : dk[c].state # "absent"}

\* client.containers.get(container_id) raises NotFound
NotFound(dk, cid) == dk[cid].state \in {"absent", "removed"}

\* TrackContainer that keeps the first container recorded for a rental.
TrackContainerKeepFirst(ac, rental_id, cid) ==
    IF rental_id \in DOMAIN ac THEN ac ELSE MapPut(ac, rental_id, cid)

\* self._active_containers[rental_id] = container_id
TrackContainer(ac, rental_id, cid) == MapPut(ac, rental_id, cid)

\* if rental_id and rental_id in self._active_containers: del ...
UntrackContainer(ac, rental_id) ==
    IF Truthy(rental_id) /\ rental_id \in DOMAIN ac
    THEN MapDel(ac, rental_id)
    ELSE ac

\* start_container that takes a failed containers.run for a success.
start_containerIgnoresRunFailure(d, rental_id, image, allowed, daemon) ==
    IF ~is_image_allowed(image, allowed) \/ daemon = "pull_fail"
    THEN [ac |-> d.ac, dk |-> d.dk, raised |-> TRUE, cid |-> 0]
    ELSE IF daemon = "run_fail"
    THEN [ac |-> d.ac, dk |-> d.dk, raised |-> FALSE, cid |-> 0]
    ELSE LET cid == Cardinality(Created(d.dk)) + 1
         IN [ac |-> TrackContainer(d.ac, rental_id, cid),
             dk |-> [d.dk EXCEPT ![cid] = [rental |-> rental_id,
                                            image |-> image,
                                            state |-> "running"]],
             raised |-> FALSE,
             cid |-> cid]

\* DockerManager.start_container on d = [ac, dk]; daemon is what the
\* daemon answers: "ok", "pull_fail" (image pull / no daemon) or "run_fail".
start_container(d, rental_id, image, allowed, daemon) ==
    IF ~is_image_allowed(image, allowed) \/ daemon # "ok"
    THEN [ac |-> d.ac, dk |-> d.dk, raised |-> TRUE, cid |-> 0]
    ELSE LET cid == Cardinality(Created(d.dk)) + 1
         IN [ac |-> TrackContainer(d.ac, rental_id, cid),
             dk |-> [d.dk EXCEPT ![cid] = [rental |-> rental_id,
                                            image |-> image,
                                            state |-> "running"]],
             raised |-> FALSE,
             cid |-> cid]

\* stop_container that passes NotFound on like any other daemon error.
stop_containerNotFoundRaises(d, cid, rental_id, graceful, daemon) ==
    IF daemon # "ok" \/ NotFound(d.dk, cid)
          \/ (~graceful /\ d.dk[cid].state # "running")
    THEN [ac |-> d.ac, dk |-> d.dk, raised |-> TRUE]
    ELSE [ac |-> UntrackContainer(d.ac, rental_id),
          dk |-> [d.dk EXCEPT ![cid].state = "exited"],
          raised |-> FALSE]

\* stop_container that treats an APIError like NotFound.
stop_containerSwallowsApiError(d, cid, rental_id, graceful, daemon) ==
    IF daemon # "ok" \/ NotFound(d.dk, cid)
          \/ (~graceful /\ d.dk[cid].state # "running")
    THEN [ac |-> UntrackContainer(d.ac, rental_id), dk |-> d.dk,
          raised |-> FALSE]
    ELSE [ac |-> UntrackContainer(d.ac, rental_id),
          dk |-> [d.dk EXCEPT ![cid].state = "exited"],
          raised |-> FALSE]

\* DockerManager.stop_container on d = [ac, dk]; daemon is "ok" or
\* "api_error".  kill() of a container that is not running is refused by
\* the daemon with an APIError.
stop_container(d, cid, rental_id, graceful, daemon) ==
    IF daemon # "ok"
    THEN [ac |-> d.ac, dk |-> d.dk, raised |-> TRUE]
    ELSE IF NotFound(d.dk, cid)
    THEN [ac |-> UntrackContainer(d.ac, rental_id), dk |-> d.dk,
          raised |-> FALSE]
    ELSE IF ~graceful /\ d.dk[cid].state # "running"
    THEN [ac |-> d.ac, dk |-> d.dk, raised |-> TRUE]
    ELSE [ac |-> UntrackContainer(d.ac, rental_id),
          dk |-> [d.dk EXCEPT ![cid].state = "exited"],
          raised |-> FALSE]

\* list_active_rentals that drops one entry whose container is gone per
\* call.
list_active_rentalsDropsOne(ac, dk) ==
    LET gone == {x \in DOMAIN ac : NotFound(dk, ac[x])}
    IN IF gone = {} THEN ac ELSE MapDel(ac, CHOOSE x \in gone : TRUE)

\* DockerManager.list_active_rentals: the tracked map without the entries
\* whose container no longer exists.
list_active_rentals(ac, dk) ==
    [r \in {x \in DOMAIN ac : ~NotFound(dk, ac[x])} |-> ac[r]]

\* -------------------------------------------------------- TunnelManager
NoProc == [rental |-> "", state |-> "absent"]

\* The TunnelManager's fields and the world it acts on, as one record.
TunnelState ==
    [at |-> active_tunnels, tc |-> tunnel_configs, procs |-> procs,
     files |-> files, seq |-> tunnel_seq, frpc_path |-> frpc_path,
     installed |-> frpc_installed, raised |-> FALSE]

\* create_tunnel without the unlink of its except clauses.
create_tunnelKeepsFile(t, rental_id, spawn_ok) ==
    IF rental_id \in DOMAIN t.at
    THEN t
    ELSE LET fid == t.seq + 1
             written == [t EXCEPT !.seq = fid,
                                  !.files = @ \cup {fid},
                                  !.tc = MapPut(@, rental_id, fid)]
         IN IF t.frpc_path = "none" /\ ~t.installed
            THEN [written EXCEPT !.raised = TRUE]
            ELSE IF ~t.installed \/ ~spawn_ok
            THEN [written EXCEPT !.frpc_path = "resolved",
                                 !.raised = TRUE]
            ELSE [written EXCEPT !.frpc_path = "resolved",
                                 !.at = MapPut(@, rental_id, fid),
                                 !.procs[fid] = [rental |-> rental_id,
                                                 state |-> "running"]]

\* TunnelManager.create_tunnel; spawn_ok is whether Popen succeeds when
\* the binary is there.
create_tunnel(t, rental_id, spawn_ok) ==
    IF rental_id \in DOMAIN t.at
    THEN t
    ELSE LET fid == t.seq + 1
             written == [t EXCEPT !.seq = fid,
                                  !.files = @ \cup {fid},
                                  !.tc = MapPut(@, rental_id, fid)]
         IN IF t.frpc_path = "none" /\ ~t.installed
            THEN \* frpc_path raises FRPCNotFoundError
                 [written EXCEPT !.files = @ \ {fid}, !.raised = TRUE]
            ELSE IF ~t.installed \/ ~spawn_ok
            THEN \* Popen raises
                 [written EXCEPT !.frpc_path = "resolved",
                                 !.files = @ \ {fid},
                                 !.raised = TRUE]
            ELSE [written EXCEPT !.frpc_path = "resolved",
                                 !.at = MapPut(@, rental_id, fid),
                                 !.procs[fid] = [rental |-> rental_id,
                                                 state |-> "running"]]

\* destroy_tunnel that leaves the config file where it is.
destroy_tunnelKeepsFile(t, rental_id) ==
    IF rental_id \notin DOMAIN t.at
    THEN t
    ELSE [t EXCEPT !.procs[t.at[rental_id]].state = "exited",
                   !.at = MapDel(@, rental_id),
                   !.tc = MapDel(@, rental_id)]

\* TunnelManager.destroy_tunnel
destroy_tunnel(t, rental_id) ==
    IF rental_id \notin DOMAIN t.at
    THEN t
    ELSE [t EXCEPT !.procs[t.at[rental_id]].state = "exited",
                   !.at = MapDel(@, rental_id),
                   !.tc = MapDel(@, rental_id),
                   !.files = @ \ (IF rental_id \in DOMAIN t.tc
                                  THEN {t.tc[rental_id]} ELSE {})]

\* TunnelManager.destroy_all_tunnels
RECURSIVE DestroyEach(_, _)
DestroyEach(t, ids) ==
    IF ids = {} THEN t
    ELSE LET r == CHOOSE x \in ids : TRUE
         IN DestroyEach(destroy_tunnel(t, r), ids \ {r})

destroy_all_tunnels(t) == DestroyEach(t, DOMAIN t.at)

\* TunnelManager.list_active_tunnels: the record and the config file of
\* every tunnel whose process has ended are removed.
list_active_tunnels(t) ==
    LET dead == {r \in DOMAIN t.at : t.procs[t.at[r]].state # "running"}
    IN [t EXCEPT !.at = [r \in DOMAIN t.at \ dead |-> t.at[r]],
                 !.tc = [r \in DOMAIN t.tc \ dead |-> t.tc[r]],
                 !.files = @ \ {t.tc[r] : r \in dead \cap DOMAIN t.tc}]

\* Writes a TunnelManager record back to the variables.
SetTunnels(t) ==
    /\ active_tunnels' = t.at
    /\ tunnel_configs' = t.tc
    /\ procs' = t.procs
    /\ files' = t.files
    /\ tunnel_seq' = t.seq
    /\ frpc_path' = t.frpc_path
    /\ frpc_installed' = t.installed

\* ----------------------------------------------------------- observation
NoPend == [kind |-> "none", rental |-> "", cid |-> 0, msg |-> ""]

\* No function is followed on its own.
NoCall == [op |-> "none"]

\* ------------------------------------------------------------------ Init
InitWith(base, attempts) ==
    /\ connection = "none"
    /\ connected = FALSE
    /\ should_run = FALSE
    /\ reconnect_count = 0
    /\ status = "offline"
    /\ heartbeat_ms = DefaultHeartbeatMs
    /\ reconnect_delay = base
    /\ max_reconnect_attempts = attempts
    /\ rl = "init"
    /\ hb = "none"
    /\ listen = "none"
    /\ pend = NoPend
    /\ active_containers = EmptyMap
    /\ docker = [c \in ContainerIds |-> NoContainer]
    /\ allowed_images = DefaultAllowed
    /\ active_tunnels = EmptyMap
    /\ tunnel_configs = EmptyMap
    /\ procs = [p \in TunnelIds |-> NoProc]
    /\ files = {}
    /\ tunnel_seq = 0
    /\ frpc_path = "none"
    /\ frpc_installed = TRUE
    /\ delays = <<>>
    /\ after_loss = FALSE

\* The agent as configured by default, but for max_reconnect_attempts.
Init == InitWith(DefaultReconnectDelay, GiveUpAfter) /\ call = NoCall

\* Any reconnect configuration the config file admits.
InitRun ==
    /\ \E base \in Bases, attempts \in MaxAttempts : InitWith(base, attempts)
    /\ call = NoCall

\* ------------------------------------------------------- BackendClient.run
\* The reader's handler is running and its send returns at once (not
\* connected): no other task of the event loop runs meanwhile.
NoYield == listen = "send" /\ ~IsConnected

\* ReaderIdle for a reader that starts each handler as a task of its own.
ReaderIdleOrSending == listen \in {"recv", "send"}

\* listen_commands awaits the next frame of the connection: the handler
\* of the frame before has returned.
ReaderIdle == listen = "recv"

\* AgentOrchestrator.run -> BackendClient.run: self._should_run = True
Run ==
    /\ rl = "init"
    /\ should_run' = TRUE
    /\ rl' = "head"
    /\ UNCHANGED <<connection, connected, reconnect_count, status, heartbeat_ms,
                   reconnect_delay, max_reconnect_attempts, hb, listen, pend,
                   dockerVars, tunnelVars, obsVars>>

\* The sleep (if any) is over and the loop condition finds the flag down.
LoopExit ==
    /\ rl \in {"head", "sleep"}
    /\ ~should_run
    /\ rl' = "exited"
    /\ UNCHANGED <<clientVars, hb, listen, pend, dockerVars, tunnelVars, obsVars>>

\* DialOk with a connect() that leaves _reconnect_count as it is.
DialOkKeepsCount ==
    /\ rl \in {"head", "sleep"}
    /\ should_run
    /\ IF connected
       THEN UNCHANGED <<connection, connected, status>>
       ELSE /\ connection' = "open"
            /\ connected' = TRUE
            /\ status' = "online"
    /\ hb' = "alive"
    /\ listen' = "recv"
    /\ rl' = "serving"
    /\ delays' = <<>>
    /\ after_loss' = FALSE
    /\ UNCHANGED <<should_run, reconnect_count, heartbeat_ms, reconnect_delay,
                   max_reconnect_attempts, pend, dockerVars, tunnelVars, call>>

\* The loop condition holds and connect() returns True (a new session,
\* or already connected); run() starts the heartbeat and reader tasks.
DialOk ==
    /\ rl \in {"head", "sleep"}
    /\ should_run
    /\ IF connected
       THEN UNCHANGED <<connection, connected, reconnect_count, status>>
       ELSE /\ connection' = "open"
            /\ connected' = TRUE
            /\ reconnect_count' = 0
            /\ status' = "online"
    /\ hb' = "alive"
    /\ listen' = "recv"
    /\ rl' = "serving"
    /\ delays' = <<>>
    /\ after_loss' = FALSE
    /\ UNCHANGED <<should_run, heartbeat_ms, reconnect_delay,
                   max_reconnect_attempts, pend, dockerVars, tunnelVars, call>>

\* The loop condition holds and connect() returns False: count the
\* attempt, give up at the maximum, else sleep the backoff delay.
DialFail ==
    /\ rl \in {"head", "sleep"}
    /\ should_run
    /\ ~connected
    /\ Len(delays) < MaxDials
    /\ reconnect_count' = reconnect_count + 1
    /\ IF GiveUp(max_reconnect_attempts, reconnect_count + 1)
       THEN /\ rl' = "exited"
            /\ delays' = delays
       ELSE /\ rl' = "sleep"
            /\ delays' = Append(delays,
                                BackoffDelay(reconnect_delay, reconnect_count + 1))
    /\ UNCHANGED <<connection, connected, should_run, status, heartbeat_ms,
                   reconnect_delay, max_reconnect_attempts, hb, listen, pend,
                   dockerVars, tunnelVars, after_loss, call>>

\* AfterWait that does not cancel the pending task: a handler suspended
\* in its send stays as it is.
AfterWaitKeepsHandler(flag) ==
    /\ hb' = "none"
    /\ listen' = "none"
    /\ pend' = pend
    /\ IF should_run
       THEN /\ connected' = FALSE
            /\ reconnect_count' = reconnect_count + 1
            /\ delays' = Append(delays, LostDelay(reconnect_delay))
            /\ after_loss' = TRUE
            /\ rl' = "sleep"
       ELSE /\ connected' = flag
            /\ rl' = "exited"
            /\ UNCHANGED <<reconnect_count, delays, after_loss>>
    /\ UNCHANGED <<connection, should_run, status, heartbeat_ms, reconnect_delay,
                   max_reconnect_attempts, dockerVars, tunnelVars, call>>

\* AfterWait that cancels the reader but leaves a pending heartbeat
\* task to itself.
AfterWaitLeavesHeartbeat(flag) ==
    /\ hb' = hb
    /\ listen' = "none"
    /\ pend' = NoPend
    /\ IF should_run
       THEN /\ connected' = FALSE
            /\ reconnect_count' = reconnect_count + 1
            /\ delays' = Append(delays, LostDelay(reconnect_delay))
            /\ after_loss' = TRUE
            /\ rl' = "sleep"
       ELSE /\ connected' = flag
            /\ rl' = "exited"
            /\ UNCHANGED <<reconnect_count, delays, after_loss>>
    /\ UNCHANGED <<connection, should_run, status, heartbeat_ms, reconnect_delay,
                   max_reconnect_attempts, dockerVars, tunnelVars, call>>

\* AfterWait of a client that tears the tunnels down when the session
\* ends.
AfterWaitDropsTunnels(flag) ==
    /\ hb' = "none"
    /\ listen' = "none"
    /\ pend' = NoPend
    /\ IF should_run
       THEN /\ connected' = FALSE
            /\ reconnect_count' = reconnect_count + 1
            /\ delays' = Append(delays, LostDelay(reconnect_delay))
            /\ after_loss' = TRUE
            /\ rl' = "sleep"
       ELSE /\ connected' = flag
            /\ rl' = "exited"
            /\ UNCHANGED <<reconnect_count, delays, after_loss>>
    /\ SetTunnels(destroy_all_tunnels(TunnelState))
    /\ UNCHANGED <<connection, should_run, status, heartbeat_ms, reconnect_delay,
                   max_reconnect_attempts, dockerVars, call>>

\* run() after asyncio.wait: the task still pending is cancelled (a
\* handler suspended in its send is abandoned there); then, if still
\* supposed to run, the attempt is counted and reconnect_delay slept,
\* else the loop is left.  flag is _connected as the ended task left it.
AfterWait(flag) ==
    /\ hb' = "none"
    /\ listen' = "none"
    /\ pend' = NoPend
    /\ IF should_run
       THEN /\ connected' = FALSE
            /\ reconnect_count' = reconnect_count + 1
            /\ delays' = Append(delays, LostDelay(reconnect_delay))
            /\ after_loss' = TRUE
            /\ rl' = "sleep"
       ELSE /\ connected' = flag
            /\ rl' = "exited"
            /\ UNCHANGED <<reconnect_count, delays, after_loss>>
    /\ UNCHANGED <<connection, should_run, status, heartbeat_ms, reconnect_delay,
                   max_reconnect_attempts, dockerVars, tunnelVars, call>>

\* _heartbeat_loop: one more heartbeat is sent; a closed connection
\* clears the connected flag.
HbTick ==
    /\ hb = "alive"
    /\ ~NoYield
    /\ should_run /\ IsConnected
    /\ connected' = (connection = "open")
    /\ UNCHANGED <<connection, should_run, reconnect_count, status, heartbeat_ms,
                   reconnect_delay, max_reconnect_attempts, rl, hb, listen, pend,
                   dockerVars, tunnelVars, obsVars>>

\* HeartbeatEnds of a heartbeat loop that tests is_connected alone.
HeartbeatEndsOnDisconnectOnly ==
    /\ rl = "serving"
    /\ hb = "alive"
    /\ ~NoYield
    /\ ~IsConnected
    /\ AfterWait(connected)

\* _heartbeat_loop finds its condition false and returns; run() resumes.
HeartbeatEnds ==
    /\ rl = "serving"
    /\ hb = "alive"
    /\ ~NoYield
    /\ ~(should_run /\ IsConnected)
    /\ AfterWait(connected)

\* listen_commands: the connection is closed (ConnectionClosed), the
\* reader returns; run() resumes.
ListenClosed ==
    /\ rl = "serving"
    /\ listen = "recv"
    /\ connection = "closed"
    /\ AfterWait(FALSE)

\* listen_commands: any other error of the loop (a binary frame that is
\* not UTF-8); the connection object stays as it is.
ListenError ==
    /\ rl = "serving"
    /\ listen = "recv"
    /\ connection = "open"
    /\ AfterWait(FALSE)

\* BackendClient.stop, from the signal handler
StopSignal ==
    /\ should_run
    /\ should_run' = FALSE
    /\ UNCHANGED <<connection, connected, reconnect_count, status, heartbeat_ms,
                   reconnect_delay, max_reconnect_attempts, rl, hb, listen, pend,
                   dockerVars, tunnelVars, obsVars>>

\* Shutdown of an agent that also stops the containers it tracks.
ShutdownStopsContainers ==
    /\ rl = "exited"
    /\ rl' = "stopped"
    /\ status' = "offline"
    /\ should_run' = FALSE
    /\ connection' = "none"
    /\ connected' = FALSE
    /\ SetTunnels(destroy_all_tunnels(TunnelState))
    /\ active_containers' = EmptyMap
    /\ docker' = [c \in DOMAIN docker |->
                     IF docker[c].state = "running"
                     THEN [docker[c] EXCEPT !.state = "exited"]
                     ELSE docker[c]]
    /\ UNCHANGED <<reconnect_count, heartbeat_ms, reconnect_delay,
                   max_reconnect_attempts, hb, listen, pend, allowed_images,
                   obsVars>>

\* AgentOrchestrator.shutdown, once run() has returned: status Offline,
\* BackendClient.disconnect, TunnelManager.destroy_all_tunnels
Shutdown ==
    /\ rl = "exited"
    /\ rl' = "stopped"
    /\ status' = "offline"
    /\ should_run' = FALSE
    /\ connection' = "none"
    /\ connected' = FALSE
    /\ SetTunnels(destroy_all_tunnels(TunnelState))
    /\ UNCHANGED <<reconnect_count, heartbeat_ms, reconnect_delay,
                   max_reconnect_attempts, hb, listen, pend, dockerVars, obsVars>>

\* ------------------------------------------- AgentOrchestrator handlers
\* send_message as the handler's await resumes: whether the frame went
\* out, and the connected flag after it.
Delivered == IsConnected /\ connection = "open"
\* ConnectedAfterSend of a send_message without its except clause for
\* ConnectionClosed.
ConnectedAfterSendKeepsFlag == connected

ConnectedAfterSend == IF IsConnected THEN connection = "open" ELSE connected

DockerState == [ac |-> active_containers, dk |-> docker]

\* ssh_port as proxy_port_mapping.get("22") or 22 would give it.
ssh_portOrDefault(proxy_port_mapping) ==
    IF "22" \in DOMAIN proxy_port_mapping /\ proxy_port_mapping["22"] # 0
    THEN proxy_port_mapping["22"]
    ELSE DefaultSshPort

\* ssh_port=data.proxy_port_mapping.get("22", 22)
ssh_port(proxy_port_mapping) ==
    IF "22" \in DOMAIN proxy_port_mapping
    THEN proxy_port_mapping["22"]
    ELSE DefaultSshPort

\* additional_ports={k: v for k, v in ...items() if k != "22"}
additional_ports(proxy_port_mapping) ==
    [k \in DOMAIN proxy_port_mapping \ {"22"} |-> proxy_port_mapping[k]]

\* A start_instance with this proxy_port_mapping is on its success path.
StartRequest(proxy_port_mapping) ==
    [op |-> "start_instance", arg |-> proxy_port_mapping]

\* _handle_start_instance builds the connection info of its
\* instance_started event from the command's proxy_port_mapping.
ConnectionInfo ==
    /\ call.op = "start_instance"
    /\ call' = [op |-> "instance_started",
                arg |-> call.arg,
                ssh_port |-> ssh_port(call.arg),
                additional_ports |-> additional_ports(call.arg)]
    /\ UNCHANGED <<clientVars, rl, hb, listen, pend, dockerVars, tunnelVars,
                   delays, after_loss>>

\* _handle_start_instance up to its send: start_container,
\* get_container_ports (reads only), create_tunnel, then
\* send_instance_started, or send_error from the except clause.
RecvStart(rental_id, image, daemon, spawn_ok) ==
    /\ ReaderIdle
    /\ LET d == start_container(DockerState, rental_id, image,
                                allowed_images, daemon)
           t == IF d.raised THEN TunnelState
                ELSE create_tunnel(TunnelState, rental_id, spawn_ok)
       IN /\ is_image_allowed(image, allowed_images) /\ daemon = "ok"
                => Cardinality(Created(docker)) < MaxContainers
          /\ t.seq <= MaxTunnels
          /\ active_containers' = d.ac
          /\ docker' = d.dk
          /\ SetTunnels(t)
          /\ pend' = IF d.raised \/ t.raised
                     THEN [kind |-> "agent_error", rental |-> rental_id,
                           cid |-> 0, msg |-> "START_INSTANCE_FAILED"]
                     ELSE [kind |-> "instance_started", rental |-> rental_id,
                           cid |-> d.cid, msg |-> ""]
    /\ listen' = "send"
    /\ UNCHANGED <<clientVars, rl, hb, allowed_images, obsVars>>

\* StopSteps with the container stopped first, and the tunnel destroyed
\* only once that went through.
StopStepsContainerFirst(t, d, rental_id, cid, graceful, daemon) ==
    LET stopped == stop_container(d, cid, rental_id, graceful, daemon)
    IN [t |-> IF stopped.raised THEN t ELSE destroy_tunnel(t, rental_id),
        d |-> stopped]

\* The try block of _handle_stop_instance before its send: the tunnel is
\* destroyed first, then the container stopped.
StopSteps(t, d, rental_id, cid, graceful, daemon) ==
    [t |-> destroy_tunnel(t, rental_id),
     d |-> stop_container(d, cid, rental_id, graceful, daemon)]

\* _handle_stop_instance up to its send: destroy_tunnel, stop_container,
\* then send_instance_stopped "requested", or "error" from the except
\* clause.
RecvStop(rental_id, cid, graceful, daemon) ==
    /\ ReaderIdle
    /\ LET done == StopSteps(TunnelState, DockerState, rental_id, cid,
                              graceful, daemon)
           t == done.t
           d == done.d
       IN /\ SetTunnels(t)
          /\ active_containers' = d.ac
          /\ docker' = d.dk
          /\ pend' = [kind |-> "instance_stopped", rental |-> rental_id,
                      cid |-> cid,
                      msg |-> IF d.raised THEN "error" ELSE "requested"]
    /\ listen' = "send"
    /\ UNCHANGED <<clientVars, rl, hb, allowed_images, obsVars>>

\* The handler resumes after its send.  After instance_started: Online
\* becomes Busy.  After instance_stopped "requested": list_active_rentals
\* (which raises when the daemon fails on a tracked container, into the
\* except clause and its second send), and Online when nothing is left.
SendComplete(daemon) ==
    /\ listen = "send"
    /\ connected' = ConnectedAfterSend
    /\ IF pend.kind = "instance_started"
       THEN /\ status' = IF status = "online" THEN "busy" ELSE status
            /\ listen' = "recv"
            /\ pend' = NoPend
            /\ UNCHANGED active_containers
       ELSE IF pend.kind = "instance_stopped" /\ pend.msg = "requested"
       THEN IF daemon # "ok" /\ DOMAIN active_containers # {}
            THEN /\ pend' = [pend EXCEPT !.msg = "error"]
                 /\ listen' = "send"
                 /\ UNCHANGED <<status, active_containers>>
            ELSE /\ active_containers' =
                        list_active_rentals(active_containers, docker)
                 /\ status' = IF DOMAIN active_containers' = {}
                              THEN "online" ELSE status
                 /\ listen' = "recv"
                 /\ pend' = NoPend
       ELSE /\ listen' = "recv"
            /\ pend' = NoPend
            /\ UNCHANGED <<status, active_containers>>
    /\ UNCHANGED <<connection, should_run, reconnect_count, heartbeat_ms,
                   reconnect_delay, max_reconnect_attempts, rl, hb, docker,
                   allowed_images, tunnelVars, obsVars>>

\* _handle_drain_node
RecvDrain ==
    /\ ReaderIdle
    /\ status' = "maintenance"
    /\ UNCHANGED <<connection, connected, should_run, reconnect_count,
                   heartbeat_ms, reconnect_delay, max_reconnect_attempts,
                   rl, hb, listen, pend, dockerVars, tunnelVars, obsVars>>

\* AgentConfigData.heartbeat_interval_ms as pydantic builds it from the
\* member of the payload: the default when the member is left out.
heartbeat_interval_ms(member) ==
    IF member = <<>> THEN ConfigHeartbeatMs ELSE member[1]

\* _handle_update_config on a command whose config has this
\* heartbeat_interval_ms member and this allowed_images list ({} when
\* left out or empty).
RecvUpdateConfig(member, images) ==
    /\ ReaderIdle
    /\ heartbeat_ms' = IF heartbeat_interval_ms(member) > 0
                       THEN heartbeat_interval_ms(member)
                       ELSE heartbeat_ms
    /\ allowed_images' = IF images # {} THEN images ELSE allowed_images
    /\ UNCHANGED <<connection, connected, should_run, reconnect_count, status,
                   reconnect_delay, max_reconnect_attempts, rl, hb, listen,
                   pend, active_containers, docker, tunnelVars, obsVars>>

\* _handle_message on a frame that is no known command (or no JSON)
RecvUnknown ==
    /\ ReaderIdle
    /\ UNCHANGED vars

\* ------------------------------------------- the DockerManager by itself
\* DockerManager.start_container, called on the manager directly.
StartContainer(rental_id, image, daemon) ==
    /\ LET d == start_container(DockerState, rental_id, image,
                                allowed_images, daemon)
       IN /\ ~d.raised => Cardinality(Created(docker)) < MaxContainers
          /\ active_containers' = d.ac
          /\ docker' = d.dk
    /\ UNCHANGED <<clientVars, rl, hb, listen, pend, allowed_images,
                   tunnelVars, obsVars>>

\* DockerManager.stop_container, called on the manager directly.
StopContainer(rental_id, cid, graceful, daemon) ==
    /\ LET d == stop_container(DockerState, cid, rental_id, graceful, daemon)
       IN /\ active_containers' = d.ac
          /\ docker' = d.dk
    /\ UNCHANGED <<clientVars, rl, hb, listen, pend, allowed_images,
                   tunnelVars, obsVars>>

\* DockerManager.list_active_rentals, called on the manager directly:
\* get_container_status passes on any daemon error but NotFound, before
\* the tracked map is replaced.
ListActiveRentals(daemon) ==
    /\ LET raised == daemon # "ok" /\ DOMAIN active_containers # {}
           active == list_active_rentals(active_containers, docker)
       IN /\ active_containers' = IF raised THEN active_containers ELSE active
          /\ call' = [op |-> "list_active_rentals",
                      before |-> active_containers,
                      dk |-> docker,
                      raised |-> raised,
                      ret |-> IF raised THEN EmptyMap ELSE active]
    /\ UNCHANGED <<clientVars, rl, hb, listen, pend, docker, allowed_images,
                   tunnelVars, delays, after_loss>>

\* ------------------------------------------- the TunnelManager by itself
\* TunnelManager.create_tunnel, called on the manager directly.
CreateTunnel(rental_id, spawn_ok) ==
    /\ create_tunnel(TunnelState, rental_id, spawn_ok).seq <= MaxTunnels
    /\ SetTunnels(create_tunnel(TunnelState, rental_id, spawn_ok))
    /\ UNCHANGED <<clientVars, rl, hb, listen, pend, dockerVars, obsVars>>

\* TunnelManager.destroy_tunnel, called on the manager directly.
DestroyTunnel(rental_id) ==
    /\ SetTunnels(destroy_tunnel(TunnelState, rental_id))
    /\ UNCHANGED <<clientVars, rl, hb, listen, pend, dockerVars, obsVars>>

\* TunnelManager.list_active_tunnels, called on the manager directly.
ListActiveTunnels ==
    /\ SetTunnels(list_active_tunnels(TunnelState))
    /\ UNCHANGED <<clientVars, rl, hb, listen, pend, dockerVars, obsVars>>

\* TunnelManager.destroy_all_tunnels, called on the manager directly.
DestroyAllTunnels ==
    /\ SetTunnels(destroy_all_tunnels(TunnelState))
    /\ UNCHANGED <<clientVars, rl, hb, listen, pend, dockerVars, obsVars>>

\* ------------------------------------------ BackendClient._handle_message
\* An inbound text frame: whether it is JSON (an object, another JSON
\* value, or no JSON at all), its "event" member, whether its payload
\* passes the command model's validation, and what the handler would do
\* with the command (return, raise an Exception, or be cancelled).
Frames ==
    [json : {"object", "other", "malformed"},
     event : {"start_instance", "stop_instance", "drain_node",
              "update_config", "teleport", "absent"},
     payload : {"valid", "invalid"},
     outcome : {"returns", "RuntimeError", "CancelledError"}]

\* The commands parse_backend_command knows, which are the events the
\* orchestrator registers a handler for.
RegisteredEvents ==
    {"start_instance", "stop_instance", "drain_node", "update_config"}

\* The classes an "except Exception" clause catches; CancelledError is a
\* BaseException only.
ExceptionClasses ==
    {"JSONDecodeError", "AttributeError", "ValidationError", "RuntimeError"}

\* parse_backend_command: the command, or None for an event it does not
\* know; a payload the command model refuses raises ValidationError.
parse_backend_command(frame) ==
    IF frame.event \notin RegisteredEvents
    THEN [command |-> "none", raised |-> "none"]
    ELSE IF frame.payload = "invalid"
    THEN [command |-> "none", raised |-> "ValidationError"]
    ELSE [command |-> frame.event, raised |-> "none"]

\* InnerCatches of a dispatch without the try around the handler.
InnerCatchesNothing(e) == FALSE

\* "except Exception" around the handler call
InnerCatches(e) == e \in ExceptionClasses

\* "except json.JSONDecodeError" and "except Exception" around the body
OuterCatches(e) == e = "JSONDecodeError" \/ e \in ExceptionClasses

\* handle_message that answers a frame it has no command for with an
\* agent_error.
handle_messageReportsUnknown(frame) ==
    LET parsed == IF frame.json = "malformed"
                  THEN [command |-> "none", raised |-> "JSONDecodeError"]
                  ELSE IF frame.json = "other"
                  THEN [command |-> "none", raised |-> "AttributeError"]
                  ELSE parse_backend_command(frame)
        ran == parsed.command # "none"
                   /\ parsed.command \in RegisteredEvents
        raised == IF ran /\ frame.outcome # "returns"
                  THEN frame.outcome ELSE parsed.raised
        body == [handler |-> IF ran THEN parsed.command ELSE "none",
                 sent |-> IF ran /\ raised # "none" /\ InnerCatches(raised)
                          THEN "HANDLER_ERROR"
                          ELSE IF ~ran /\ parsed.raised = "none"
                          THEN "UNKNOWN_COMMAND" ELSE "none",
                 raised |-> IF ran /\ InnerCatches(raised)
                            THEN "none" ELSE raised]
    IN [handler |-> body.handler,
        sent |-> body.sent,
        escaped |-> IF OuterCatches(body.raised) THEN "none" ELSE body.raised]

\* BackendClient._handle_message on one frame: the handler that ran, the
\* error code of the agent_error sent, and the exception that escapes
\* to listen_commands (which ends the reader).
handle_message(frame) ==
    LET parsed == IF frame.json = "malformed"
                  THEN [command |-> "none", raised |-> "JSONDecodeError"]
                  ELSE IF frame.json = "other"
                  THEN [command |-> "none", raised |-> "AttributeError"]
                  ELSE parse_backend_command(frame)
        ran == parsed.command # "none"
                   /\ parsed.command \in RegisteredEvents
        raised == IF ran /\ frame.outcome # "returns"
                  THEN frame.outcome ELSE parsed.raised
        body == [handler |-> IF ran THEN parsed.command ELSE "none",
                 sent |-> IF ran /\ raised # "none" /\ InnerCatches(raised)
                          THEN "HANDLER_ERROR" ELSE "none",
                 raised |-> IF ran /\ InnerCatches(raised)
                            THEN "none" ELSE raised]
    IN [handler |-> body.handler,
        sent |-> body.sent,
        escaped |-> IF OuterCatches(body.raised) THEN "none" ELSE body.raised]

\* listen_commands hands the next frame to _handle_message.
HandleMessage ==
    /\ call.op = "frame"
    /\ call' = [op |-> "handle_message", frame |-> call.frame,
                ret |-> handle_message(call.frame)]
    /\ UNCHANGED <<clientVars, rl, hb, listen, pend, dockerVars, tunnelVars,
                   delays, after_loss>>

\* ------------------------------------------------------------ environment
\* The backend (or the network) closes the connection.
PeerClose ==
    /\ connection = "open"
    /\ connection' = "closed"
    /\ UNCHANGED <<connected, should_run, reconnect_count, status, heartbeat_ms,
                   reconnect_delay, max_reconnect_attempts, rl, hb, listen,
                   pend, dockerVars, tunnelVars, obsVars>>

\* A container's main process ends.
ContainerExits(c) ==
    /\ docker[c].state = "running"
    /\ docker' = [docker EXCEPT ![c].state = "exited"]
    /\ UNCHANGED <<clientVars, rl, hb, listen, pend, active_containers,
                   allowed_images, tunnelVars, obsVars>>

\* A container is removed from the daemon (docker rm -f).
ContainerRemoved(c) ==
    /\ docker[c].state \in {"running", "exited"}
    /\ docker' = [docker EXCEPT ![c].state = "removed"]
    /\ UNCHANGED <<clientVars, rl, hb, listen, pend, active_containers,
                   allowed_images, tunnelVars, obsVars>>

\* An frpc child exits by itself.
TunnelExits(p) ==
    /\ procs[p].state = "running"
    /\ procs' = [procs EXCEPT ![p].state = "exited"]
    /\ UNCHANGED <<clientVars, rl, hb, listen, pend, dockerVars,
                   active_tunnels, tunnel_configs, files, tunnel_seq,
                   frpc_path, frpc_installed, obsVars>>

\* The frpc binary is installed or removed.
FrpcChanges ==
    /\ frpc_installed' = ~frpc_installed
    /\ UNCHANGED <<clientVars, rl, hb, listen, pend, dockerVars,
                   active_tunnels, tunnel_configs, procs, files, tunnel_seq,
                   frpc_path, obsVars>>

\* ------------------------------------------------------- specifications
DaemonStart == {"ok", "pull_fail", "run_fail"}
DaemonStop == {"ok", "api_error"}

RunLoop ==
    \/ Run
    \/ LoopExit
    \/ DialOk
    \/ DialFail
    \/ HbTick
    \/ HeartbeatEnds
    \/ ListenClosed
    \/ ListenError
    \/ StopSignal
    \/ Shutdown
    \/ PeerClose

Commands ==
    \/ \E r \in RentalIds, image \in Images, daemon \in DaemonStart,
          spawn_ok \in BOOLEAN : RecvStart(r, image, daemon, spawn_ok)
    \/ \E r \in RentalIds, c \in ContainerIds, graceful \in BOOLEAN,
          daemon \in DaemonStop : RecvStop(r, c, graceful, daemon)
    \/ \E daemon \in DaemonStop : SendComplete(daemon)
    \/ RecvDrain
    \/ RecvUnknown

World ==
    \/ \E c \in ContainerIds : ContainerExits(c)
    \/ \E c \in ContainerIds : ContainerRemoved(c)
    \/ \E p \in TunnelIds : TunnelExits(p)

Next == RunLoop \/ Commands

\* The agent with its default settings (but giving up after GiveUpAfter
\* failed dials), its backend and its operator.
Spec == Init /\ [][Next]_vars

\* The event loop runs every task that is ready: a sleep that is over
\* lets run() test its loop condition, the heartbeat task gets its turn
\* whenever the reader awaits (again and again, if need be), a send that
\* was awaited returns, and shutdown follows the return of run().
Scheduling ==
    /\ WF_vars(LoopExit)
    /\ SF_vars(HeartbeatEnds)
    /\ WF_vars(\E daemon \in DaemonStop : SendComplete(daemon))
    /\ WF_vars(Shutdown)

\* The commands a node without rentals is sent: each stop_instance
\* finds no container and no tunnel, and its handler suspends in its send
\* like any other.
IdleCommands ==
    \/ \E r \in RentalIds, c \in ContainerIds, graceful \in BOOLEAN,
          daemon \in DaemonStop : RecvStop(r, c, graceful, daemon)
    \/ \E daemon \in DaemonStop : SendComplete(daemon)
    \/ RecvDrain
    \/ RecvUnknown

\* The run loop and its tasks under a fair event loop.
SpecFair == Init /\ [][RunLoop \/ IdleCommands]_vars /\ Scheduling

\* The same with the Docker daemon's and the frpc children's own moves.
SpecEnv == Init /\ [][Next \/ World]_vars

\* The run loop alone (no command arrives), under any reconnect settings.
SpecRun == InitRun /\ [][RunLoop]_vars

\* One session: run() dials once and the session is served, heartbeats
\* go out and the peer may close the connection, but run() does not get
\* to notice the loss.
Session ==
    \/ Run
    \/ DialOk
    \/ HbTick
    \/ PeerClose

ConfigCommands ==
    \E member \in HeartbeatMsInputs, images \in AllowedInputs :
        RecvUpdateConfig(member, images)

\* The command handlers within one session.
SpecSession == Init /\ [][Session \/ Commands]_vars

\* The same with update_config among the commands.
SpecConfig == Init /\ [][Session \/ Commands \/ ConfigCommands]_vars

\* update_config commands that carry an allow-list and no new interval.
ImageCommands ==
    \E images \in AllowedInputs : RecvUpdateConfig(<<0>>, images)

\* The command handlers within one session, the allow-list being
\* replaced at any time.
SpecImages == Init /\ [][Run \/ DialOk \/ Commands \/ ImageCommands]_vars

\* The DockerManager driven directly, with the containers' own moves.
DockerCalls ==
    \/ \E r \in RentalIds, image \in Images, daemon \in DaemonStart :
          StartContainer(r, image, daemon)
    \/ \E r \in RentalIds, c \in ContainerIds, graceful \in BOOLEAN,
          daemon \in DaemonStop : StopContainer(r, c, graceful, daemon)
    \/ \E daemon \in DaemonStop : ListActiveRentals(daemon)
    \/ \E c \in ContainerIds : ContainerExits(c)
    \/ \E c \in ContainerIds : ContainerRemoved(c)

SpecDocker == Init /\ [][DockerCalls]_vars

\* The TunnelManager driven directly, with the frpc children's and the
\* binary's own moves.
TunnelCalls ==
    \/ \E r \in RentalIds, spawn_ok \in BOOLEAN : CreateTunnel(r, spawn_ok)
    \/ \E r \in RentalIds : DestroyTunnel(r)
    \/ DestroyAllTunnels
    \/ ListActiveTunnels
    \/ \E p \in TunnelIds : TunnelExits(p)
    \/ FrpcChanges

SpecTunnels == Init /\ [][TunnelCalls]_vars

\* _handle_message on any inbound frame.
InitFrames ==
    /\ InitWith(DefaultReconnectDelay, GiveUpAfter)
    /\ \E frame \in Frames : call = [op |-> "frame", frame |-> frame]

SpecFrames == InitFrames /\ [][HandleMessage]_vars

\* The connection info of instance_started, for any proxy_port_mapping.
InitPorts ==
    /\ InitWith(DefaultReconnectDelay, GiveUpAfter)
    /\ \E m \in PortMappings : call = StartRequest(m)

SpecPorts == InitPorts /\ [][ConnectionInfo]_vars

\* ------------------------------------------------------------ properties
LiveRentals == DOMAIN active_containers \cap DOMAIN active_tunnels

RunningContainers(dk, r) ==
    {c \in DOMAIN dk : dk[c].rental = r /\ dk[c].state = "running"}

RunningTunnels(pr, r) ==
    {p \in DOMAIN pr : pr[p].rental = r /\ pr[p].state = "running"}

\* The reader's step that ends a start_instance handler on its success
\* path: it resumes from the send of instance_started.
StartSucceeds ==
    listen = "send" /\ pend.kind = "instance_started" /\ listen' = "recv"

\* The reader's step that ends a stop_instance handler on its success
\* path: it resumes from the send of instance_stopped "requested" and
\* the check of the remaining rentals goes through.
StopSucceeds ==
    /\ listen = "send"
    /\ pend.kind = "instance_stopped"
    /\ pend.msg = "requested"
    /\ listen' = "recv"

\* C1: in every reachable state the rental_ids with a container record are
\* the rental_ids with a tunnel record.
C1_RecordsAgree == DOMAIN active_containers = DOMAIN active_tunnels

\* C2: when a start_instance handler completes on its success path, the
\* container it started is the container record of its rental_id, and a
\* tunnel record exists for that rental_id.
C2_StartLeavesBothRecords ==
    [][StartSucceeds =>
          /\ pend.rental \in DOMAIN active_containers'
          /\ active_containers'[pend.rental] = pend.cid
          /\ pend.rental \in DOMAIN active_tunnels']_vars

\* A start_instance handler has completed on its success path: the status
\* went to Busy and the rental has both records.
C2_Witness ==
    /\ listen = "recv"
    /\ status = "busy"
    /\ "r1" \in LiveRentals

\* C3: when a stop_instance handler completes on its success path, its
\* rental_id has neither a container record nor a tunnel record.
C3_StopLeavesNoRecord ==
    [][StopSucceeds =>
          /\ pend.rental \notin DOMAIN active_containers'
          /\ pend.rental \notin DOMAIN active_tunnels']_vars

\* C4: with a session up and the reader between two commands, unless the
\* status is Maintenance or Offline, it is Busy exactly when a live rental
\* exists (and so Online exactly when none does).
C4_BusyIffRentals ==
    listen = "recv" /\ status \notin {"maintenance", "offline"}
        => (status = "busy" <=> LiveRentals # {})

\* C5: a start_instance for a rental_id that an earlier start_instance set
\* up (its tunnel record is there, which any stop_instance in between
\* would have removed) leaves at most one running container and at most
\* one running tunnel process of that rental.
C5_SecondStartAddsNothing ==
    [][\A r \in RentalIds :
          /\ listen = "recv"
          /\ listen' = "send"
          /\ pend'.kind \in {"instance_started", "agent_error"}
          /\ pend'.rental = r
          /\ r \in LiveRentals
          => /\ Cardinality(RunningContainers(docker', r)) <= 1
             /\ Cardinality(RunningTunnels(procs', r)) <= 1]_vars

\* C6: the status leaves Maintenance only for Offline.
C6_MaintenanceSticky ==
    [][status = "maintenance" => status' \in {"maintenance", "offline"}]_vars

\* C7: the status is Online or Busy only while the session is up: once
\* the loss of the session is noticed (the connected flag is down) the
\* status is Offline until a session is established again.
C7_OfflineWhenSessionLost ==
    status \in {"online", "busy"} => connected

\* C8: in a fresh run, the delay slept after the n-th failed dial in a row
\* is min(base * 2^min(n, 5), 300); for base 5 the first four delays are
\* 10, 20, 40, 80.
C8_BackoffSchedule ==
    ~after_loss =>
        /\ \A n \in 1..Len(delays) :
              delays[n] = Min(reconnect_delay * (2 ^ Min(n, 5)), 300)
        /\ reconnect_delay = 5 /\ Len(delays) >= 4
              => SubSeq(delays, 1, 4) = <<10, 20, 40, 80>>

\* Six dials have failed in a row in a fresh run with base 10: the delays
\* have passed the largest exponent and reached the cap.
C8_Witness ==
    /\ ~after_loss
    /\ reconnect_delay = 10
    /\ Len(delays) = 6
    /\ delays[5] = 300

\* C9: every delay the run loop sleeps is at most 300 seconds.
C9_DelaysCapped == \A n \in 1..Len(delays) : delays[n] <= 300

\* C10: between two established sessions the delays never decrease.
C10_DelaysMonotone ==
    \A n \in 1..(Len(delays) - 1) : delays[n] <= delays[n + 1]

\* connect() establishes a session in this step.
Establishes == ~connected /\ connected'

\* run() counts a failed dial in this step.
DialFails ==
    rl \in {"head", "sleep"} /\ reconnect_count' = reconnect_count + 1

\* C11: in the state right after connect() has established a session the
\* attempt counter is 0.
C11_ConnectResetsCount ==
    [][Establishes => reconnect_count' = 0]_vars

\* A session has been established again after a loss (the status is
\* Online although a rental is live, which only connect() brings about,
\* and run() had counted the loss), and the counter is 0.
C11_Witness ==
    /\ rl = "serving"
    /\ listen = "recv"
    /\ status = "online"
    /\ LiveRentals # {}
    /\ reconnect_count = 0

\* C12: with max_reconnect_attempts = 0 the run loop is left only when
\* should_run is down, whatever the number of failed dials and session
\* losses counted.
C12_InfiniteRetries ==
    [][max_reconnect_attempts = 0 /\ rl # "exited" /\ rl' = "exited"
          => ~should_run]_vars

\* With max_reconnect_attempts = 0, a session was lost and every dial
\* since has failed, and the loop is about to dial again.
C12_Witness ==
    /\ max_reconnect_attempts = 0
    /\ should_run
    /\ after_loss
    /\ rl = "sleep"
    /\ Len(delays) = MaxDials
    /\ reconnect_count = MaxDials

\* C13: when a failed dial brings the counter to max_reconnect_attempts
\* (> 0), the run loop is left without a sleep, and once left it dials
\* no more.
C13_GivesUpAtMaximum ==
    [][/\ DialFails /\ max_reconnect_attempts > 0
          /\ reconnect_count' >= max_reconnect_attempts
          => rl' = "exited" /\ delays' = delays
       /\ rl = "exited" => rl' \in {"exited", "stopped"} /\ ~Establishes]_vars

\* The loop was left at the third failed dial in a row, with should_run
\* still up.
C13_Witness ==
    /\ max_reconnect_attempts = 3
    /\ reconnect_count = 3
    /\ rl = "exited"
    /\ should_run
    /\ ~after_loss
    /\ Len(delays) = 2

\* The record a map holds for a rental, if any.
Rec(f, r) == IF r \in DOMAIN f THEN {f[r]} ELSE {}

\* C14: the reader handles one frame at a time, in the order in which the
\* connection yields them: while the handler of a frame is suspended in
\* its send, no step begins the handler of a later frame (nothing a
\* handler writes changes, and the event being sent stays that handler's),
\* until that handler has finished or been cancelled with the session.
C14_HandlersInOrder ==
    [][listen = "send" =>
          \/ listen' # "send" /\ pend' = NoPend
          \/ /\ listen' = "send"
             /\ UNCHANGED <<status, heartbeat_ms, allowed_images,
                            dockerVars, tunnelVars>>
             /\ pend' \in {pend, [pend EXCEPT !.msg = "error"]}]_vars

\* A handler is suspended in its send on an open connection, on which
\* the next frame may already have arrived.
C14_Witness ==
    /\ listen = "send"
    /\ pend.kind = "instance_started"
    /\ connection = "open"
    /\ connected

\* C15: a start_instance or stop_instance handler that has begun is the
\* only one at work on its rental until it is over: it exists only as
\* the position of the current reader (a session drop cancels it for
\* good before a new reader starts), and while it is suspended no step
\* touches the records, containers or tunnel processes of its rental,
\* but its own resumption.
C15_StartStopDoNotInterleave ==
    /\ [](listen # "send" => pend = NoPend)
    /\ [][pend.kind # "none" =>
             /\ Rec(active_tunnels', pend.rental) = Rec(active_tunnels, pend.rental)
             /\ Rec(tunnel_configs', pend.rental) = Rec(tunnel_configs, pend.rental)
             /\ RunningTunnels(procs', pend.rental) = RunningTunnels(procs, pend.rental)
             /\ RunningContainers(docker', pend.rental)
                   = RunningContainers(docker, pend.rental)
             /\ \/ Rec(active_containers', pend.rental)
                      = Rec(active_containers, pend.rental)
                \/ StopSucceeds]_vars

\* A stop_instance handler is suspended in its send while the peer has
\* closed the connection: the session drop that follows finds it there.
C15_Witness ==
    /\ listen = "send"
    /\ pend.kind = "instance_stopped"
    /\ pend.rental = "r1"
    /\ connection = "closed"
    /\ connected

\* C16: connect() dials only when no connection established earlier is
\* still open.
C16_OneConnection ==
    [][Establishes => connection # "open"]_vars

\* A stop_instance handler begins in this step and reaches its send.
StopBegins ==
    listen = "recv" /\ listen' = "send" /\ pend'.kind = "instance_stopped"

\* C17: stop_instance destroys the tunnel of its rental before it tries
\* to stop the container: whether or not the stop then goes through, no
\* tunnel record and no running tunnel process of the rental is left when
\* the handler reaches its send.
C17_TunnelFirst ==
    [][StopBegins =>
          /\ pend'.rental \notin DOMAIN active_tunnels'
          /\ RunningTunnels(procs', pend'.rental) = {}]_vars

\* The stop of a rental's container was refused: the container runs and
\* is tracked, and the rental's tunnel is gone.
C17_Witness ==
    /\ listen = "send"
    /\ pend.kind = "instance_stopped"
    /\ pend.msg = "error"
    /\ pend.rental \in DOMAIN active_containers
    /\ active_containers[pend.rental] = pend.cid
    /\ docker[pend.cid].state = "running"
    /\ pend.rental \notin DOMAIN active_tunnels
    /\ \E p \in TunnelIds :
          procs[p].rental = pend.rental /\ procs[p].state = "exited"

\* The daemon refuses the stop of container c: an APIError from get,
\* stop or kill (kill of a container that does not run).
StopRefused(c, graceful, daemon) ==
    \/ daemon = "api_error"
    \/ ~graceful /\ docker[c].state = "exited"

\* C18: when the container stop raises, the stop_instance handler sends
\* instance_stopped with reason "error" for the rental_id and container_id
\* of the command, sends no reason "requested", and leaves the status as
\* it was, also when it resumes from that send.
C18_StopFailureReported ==
    [][/\ \A r \in RentalIds, c \in ContainerIds, g \in BOOLEAN,
             dm \in DaemonStop :
             (/\ StopBegins /\ pend'.rental = r /\ pend'.cid = c
              /\ StopRefused(c, g, dm)
              /\ RecvStop(r, c, g, dm))
                => /\ pend' = [kind |-> "instance_stopped", rental |-> r,
                               cid |-> c, msg |-> "error"]
                   /\ status' = status
       /\ listen = "send" /\ pend.kind = "instance_stopped"
             /\ pend.msg = "error"
             => status' = status /\ pend' \in {pend, NoPend}]_vars

\* The stop of a running container was refused while the node was Busy.
C18_Witness ==
    /\ listen = "send"
    /\ pend.kind = "instance_stopped"
    /\ pend.msg = "error"
    /\ docker[pend.cid].state = "running"
    /\ status = "busy"

\* A start_instance handler begins in this step and reaches its send.
StartBegins ==
    /\ listen = "recv"
    /\ listen' = "send"
    /\ pend'.kind \in {"instance_started", "agent_error"}

\* The container start or the tunnel creation of a start_instance fails.
StartFails(r, image, daemon, spawn_ok) ==
    \/ ~is_image_allowed(image, allowed_images)
    \/ daemon # "ok"
    \/ r \notin DOMAIN active_tunnels /\ (~spawn_ok \/ ~frpc_installed)

\* C19: when the container start or the tunnel creation fails, the
\* start_instance handler sends agent_error START_INSTANCE_FAILED and no
\* instance_started, and leaves the status as it was, also when it
\* resumes from that send.
C19_StartFailureReported ==
    [][/\ \A r \in RentalIds, im \in Images, dm \in DaemonStart,
             ok \in BOOLEAN :
             (/\ StartBegins /\ pend'.rental = r
              /\ StartFails(r, im, dm, ok)
              /\ RecvStart(r, im, dm, ok))
                => /\ pend' = [kind |-> "agent_error", rental |-> r, cid |-> 0,
                               msg |-> "START_INSTANCE_FAILED"]
                   /\ status' = status
       /\ listen = "send" /\ pend.kind = "agent_error"
             => status' = status /\ pend' \in {pend, NoPend}]_vars

\* The tunnel creation failed after the container had started: the
\* error is being sent and the node is still Online.
C19_Witness ==
    /\ listen = "send"
    /\ pend.kind = "agent_error"
    /\ pend.rental \in DOMAIN active_containers
    /\ pend.rental \notin DOMAIN active_tunnels
    /\ status = "online"

\* What the images and patterns at hand are to each other: "p:2" is
\* matched by "p:*" alone, "e:1" by "e*" alone.
Matches(image, allowed) ==
    \/ image = ImgTorch /\ PatTorch \in allowed
    \/ image = ImgEvil /\ PatEvil \in allowed

\* C20: a start_instance whose image matches no pattern of the allow-list
\* in force (as the last update_config left it) starts no container,
\* creates no tunnel, adds no record and sends agent_error
\* START_INSTANCE_FAILED; and every container the daemon creates has an
\* image that matches the allow-list in force at that step.
C20_OnlyAllowedImages ==
    [][/\ \A r \in RentalIds, im \in Images, dm \in DaemonStart,
             ok \in BOOLEAN :
             (/\ StartBegins /\ pend'.rental = r
              /\ ~Matches(im, allowed_images)
              /\ RecvStart(r, im, dm, ok))
                => /\ UNCHANGED <<docker, active_containers, tunnelVars>>
                   /\ pend' = [kind |-> "agent_error", rental |-> r, cid |-> 0,
                               msg |-> "START_INSTANCE_FAILED"]
       /\ \A c \in ContainerIds :
             docker[c].state = "absent" /\ docker'[c].state # "absent"
                => Matches(docker'[c].image, allowed_images)]_vars

\* An update_config has replaced the allow-list, a container with an
\* image of the new list runs, and a start_instance has just been
\* answered with an error while no further container was created.
C20_Witness ==
    /\ allowed_images = {PatEvil}
    /\ \E c \in ContainerIds :
          docker[c].image = ImgEvil /\ docker[c].state = "running"
    /\ Cardinality(Created(docker)) = 1
    /\ listen = "send"
    /\ pend.kind = "agent_error"
    /\ pend.rental \notin DOMAIN active_containers

\* C21: the instance_started of a successful start_instance has ssh_port
\* equal to proxy_port_mapping["22"] when the mapping has that key and 22
\* when it has not, and additional_ports equal to the mapping without the
\* key "22", every other entry as it was.
C21_PortsReported ==
    call.op = "instance_started" =>
        /\ call.ssh_port = IF \E k \in DOMAIN call.arg : k = "22"
                           THEN call.arg["22"] ELSE 22
        /\ DOMAIN call.additional_ports = {k \in DOMAIN call.arg : k # "22"}
        /\ \A k \in DOMAIN call.additional_ports :
               call.additional_ports[k] = call.arg[k]

\* The event was built from a mapping with an entry for "22" and
\* another entry.
C21_Witness ==
    /\ call.op = "instance_started"
    /\ {"22", "80"} \subseteq DOMAIN call.arg
    /\ call.arg["22"] = 0

\* The reader's step that handles a drain_node on a node not yet drained.
DrainHandled == status # "maintenance" /\ status' = "maintenance"

\* C22: drain_node sets the status to Maintenance and changes neither the
\* container map nor the tunnel map nor any container or tunnel process;
\* from then on the status the next heartbeat carries (the status while
\* the heartbeat task is alive and its loop condition holds) is
\* Maintenance.
C22_DrainKeepsRentals ==
    /\ [][DrainHandled =>
             UNCHANGED <<active_containers, docker, active_tunnels,
                         procs>>]_vars
    /\ [][status = "maintenance" /\ hb' = "alive" /\ should_run' /\ connected'
             => status' = "maintenance"]_vars

\* C23: whatever create calls went before (successful, repeated for a
\* rental_id, failing at the spawn), destroy_all_tunnels leaves the active
\* tunnel map empty and no config file on disk.
C23_DestroyAllLeavesNothing ==
    [][DestroyAllTunnels => active_tunnels' = EmptyMap /\ files' = {}]_vars

\* destroy_all_tunnels has run after one create that succeeded and one
\* that failed.
C23_Witness ==
    /\ active_tunnels = EmptyMap
    /\ files = {}
    /\ tunnel_seq = 2
    /\ \E p, q \in TunnelIds :
          procs[p].state = "exited" /\ procs[q].state = "absent"

\* list_active_rentals has returned, and neither the daemon's containers
\* nor the tracked map have changed since.
JustListed ==
    /\ call.op = "list_active_rentals"
    /\ ~call.raised
    /\ call.dk = docker
    /\ call.ret = active_containers

\* C24: list_active_rentals called twice in a row, the containers being
\* the same, returns the same map both times and leaves the tracked map
\* after the second call as after the first; no entry of the map
\* returned names a container that no longer exists.
C24_ListIdempotent ==
    /\ [](JustListed =>
             \A r \in DOMAIN call.ret : ~NotFound(docker, call.ret[r]))
    /\ [][JustListed /\ ListActiveRentals("ok")
             => /\ call'.ret = call.ret
                /\ active_containers' = active_containers]_vars

\* list_active_rentals has returned a map without an entry it found
\* tracked, the container of which no longer exists.
C24_Witness ==
    /\ JustListed
    /\ \E r \in DOMAIN call.before :
          r \notin DOMAIN call.ret /\ NotFound(docker, call.before[r])
    /\ call.ret # EmptyMap

\* C25: a frame whose event is not one of the registered commands is
\* dropped: no handler runs, no outbound frame is sent, and no exception
\* reaches the reader, which goes on to the next frame.
C25_UnknownEventDropped ==
    call.op = "handle_message"
        /\ call.frame.json = "object"
        /\ call.frame.event \notin RegisteredEvents
        => /\ call.ret.handler = "none"
           /\ call.ret.sent = "none"
           /\ call.ret.escaped = "none"

\* The frame {"event": "teleport", ...} has been handled.
C25_Witness ==
    /\ call.op = "handle_message"
    /\ call.frame.json = "object"
    /\ call.frame.event = "teleport"
    /\ call.frame.payload = "valid"

SessionStep ==
    /\ rl' # "stopped"
    /\ rl' # rl \/ connection' # connection

\* A session established after a loss serves rentals started before it:
\* connect() has set the status to Online although a rental is live.
NewSession == rl = "serving" /\ status = "online" /\ LiveRentals # {}

\* C27: the end of a session and the establishment of the next change
\* neither the container map nor the tunnel map nor what they stand for,
\* and a stop_instance for a live rental and its running container,
\* received on the new session with the daemon answering, reaches its
\* send of instance_stopped "requested" with the tunnel record gone and
\* the container stopped.
C27_ReconnectKeepsRentals ==
    /\ [][SessionStep =>
             UNCHANGED <<active_containers, docker, active_tunnels,
                         tunnel_configs, procs, files>>]_vars
    /\ [][\A r \in RentalIds, graceful \in BOOLEAN :
             (/\ NewSession
              /\ StopBegins
              /\ pend'.rental = r
              /\ r \in LiveRentals
              /\ docker[active_containers[r]].state = "running"
              /\ RecvStop(r, active_containers[r], graceful, "ok"))
             => /\ pend'.msg = "requested"
                /\ r \notin DOMAIN active_tunnels'
                /\ docker'[pend'.cid].state = "exited"]_vars

\* On a session established after a loss, the stop_instance of one of
\* two rentals started before the loss has reached its send on the
\* success path; the other rental still has both records.
C27_Witness ==
    /\ NewSession
    /\ listen = "send"
    /\ pend.kind = "instance_stopped"
    /\ pend.msg = "requested"
    /\ pend.rental = "r1"
    /\ docker[pend.cid].rental = "r1"
    /\ docker[pend.cid].state = "exited"
    /\ "" \in LiveRentals

\* C28: when shutdown completes, the tunnel map is empty, no tunnel
\* process runs and no config file is left, the session is disconnected
\* and the status is Offline, while the container map and every
\* container are as they were before.
C28_ShutdownKeepsContainers ==
    [][rl = "exited" /\ rl' = "stopped" =>
          /\ active_tunnels' = EmptyMap
          /\ \A p \in TunnelIds : procs'[p].state # "running"
          /\ files' = {}
          /\ connection' = "none"
          /\ ~connected'
          /\ status' = "offline"
          /\ UNCHANGED <<active_containers, docker>>]_vars

\* Shutdown has completed on an agent with a live rental: its tunnel
\* process has ended and its container still runs.
C28_Witness ==
    /\ rl = "stopped"
    /\ "r1" \in DOMAIN active_containers
    /\ docker[active_containers["r1"]].state = "running"
    /\ \E p \in TunnelIds :
          procs[p].rental = "r1" /\ procs[p].state = "exited"
    /\ status = "offline"

\* C29: once a stop signal has cleared should_run, whether run() is
\* about to dial, sleeps its backoff or serves a session, run() returns
\* and shutdown runs.
C29_StopLeadsToShutdown ==
    (~should_run /\ rl \in {"head", "sleep", "serving"}) ~> (rl = "stopped")

\* The stop signal has arrived while a session is served and a handler
\* is suspended in its send.
C29_Witness ==
    /\ ~should_run
    /\ rl = "serving"
    /\ hb = "alive"
    /\ listen = "send"
    /\ IsConnected

\* C30: an update_config whose config leaves heartbeat_interval_ms out,
\* or gives it as 0, leaves the heartbeat interval as it is; one with a
\* positive heartbeat_interval_ms sets the interval to it; one without
\* allowed_images leaves the allow-list as it is.
C30_ConfigOnlyWhatItCarries ==
    [][\A member \in HeartbeatMsInputs, images \in AllowedInputs :
          RecvUpdateConfig(member, images) =>
              /\ member \in {<<>>, <<0>>} => heartbeat_ms' = heartbeat_ms
              /\ (member # <<>> /\ member # <<0>>)
                    => heartbeat_ms' = member[1]
              /\ images = {} => allowed_images' = allowed_images]_vars

\* The agent has no record of rental r, and the daemon no container c.
Unknown(r, c) ==
    /\ r \notin DOMAIN active_containers
    /\ r \notin DOMAIN active_tunnels
    /\ NotFound(docker, c)

\* C31: a stop_instance for a rental_id the agent has no record of and a
\* container_id the daemon does not know reaches its send of
\* instance_stopped "requested" with the container map, the tunnel map,
\* the containers and the tunnel processes as they were, and they stay so
\* when the handler completes, so that a later start_instance finds what
\* it would have found without the stop.
C31_UnknownStopIsNoOp ==
    [][/\ \A r \in RentalIds, c \in ContainerIds, g \in BOOLEAN :
             (/\ StopBegins /\ pend'.rental = r /\ pend'.cid = c
              /\ Unknown(r, c)
              /\ RecvStop(r, c, g, "ok"))
                => /\ pend'.msg = "requested"
                   /\ UNCHANGED <<active_containers, docker, active_tunnels,
                                  procs, files>>
       /\ (StopSucceeds /\ Unknown(pend.rental, pend.cid))
             => UNCHANGED <<active_containers, docker, active_tunnels,
                            procs, files>>]_vars

\* A stop_instance that arrived before any start_instance has reached
\* its send on the success path.
C31_Witness ==
    /\ listen = "send"
    /\ pend.kind = "instance_stopped"
    /\ pend.msg = "requested"
    /\ pend.rental = "r1"
    /\ Unknown("r1", pend.cid)
    /\ tunnel_seq = 0
    /\ Created(docker) = {}

\* create_tunnel for rental r gets past its first test and then fails:
\* the binary is not there, or its spawn fails.
CreateFails(r, spawn_ok) ==
    r \notin DOMAIN active_tunnels /\ (~frpc_installed \/ ~spawn_ok)

\* C32: a create_tunnel that fails because the binary cannot be resolved
\* or spawned adds no tunnel record and no tunnel process, leaves the
\* config files on disk as they were, caches no path when the resolution
\* failed, and a later create for the same rental_id, the binary being
\* there, resolves and spawns it and records the tunnel.
C32_FailedCreateLeavesNothing ==
    [][\A r \in RentalIds, spawn_ok \in BOOLEAN :
          (CreateFails(r, spawn_ok) /\ CreateTunnel(r, spawn_ok))
          => /\ active_tunnels' = active_tunnels
             /\ procs' = procs
             /\ files' = files
             /\ (frpc_path = "none" /\ ~frpc_installed) => frpc_path' = "none"
             /\ LET later == create_tunnel(
                                [TunnelState' EXCEPT !.installed = TRUE],
                                r, TRUE)
                IN /\ ~later.raised
                   /\ r \in DOMAIN later.at
                   /\ later.at[r] \in later.files
                   /\ later.frpc_path = "resolved"]_vars

\* A create has failed at the resolution of the binary: a config file
\* was generated and none is on disk, no tunnel is recorded, no path is
\* cached.
C32_Witness ==
    /\ tunnel_seq = 1
    /\ files = {}
    /\ active_tunnels = EmptyMap
    /\ \A p \in TunnelIds : procs[p].state = "absent"
    /\ frpc_path = "none"
    /\ ~frpc_installed

\* C33: the heartbeat task and the reader task are alive only while
\* run() waits on them: neither is alive while run() dials, sleeps or
\* has returned, and run() creates them only when neither is alive, so
\* that there is never more than one of each.
C33_TasksOnlyWhileServing ==
    /\ [](rl # "serving" => hb = "none" /\ listen = "none")
    /\ [][(hb # "alive" /\ hb' = "alive") \/ (listen = "none" /\ listen' # "none")
            \/ (rl # "serving" /\ rl' = "serving")
             => /\ hb = "none" /\ listen = "none"
                /\ hb' = "alive" /\ listen' = "recv"]_vars

\* A session with a live rental has ended and run() sleeps before the
\* next dial, both tasks being over.
C33_Witness ==
    /\ rl = "sleep"
    /\ after_loss
    /\ hb = "none"
    /\ listen = "none"
    /\ LiveRentals # {}

\* A handler resumes from its send in this step: send_message has
\* returned.
SendReturns ==
    /\ listen = "send"
    /\ listen' # "none"
    /\ listen' = "recv" \/ pend' # pend

\* C34: a send_message on a client that is not connected writes nothing
\* and leaves the connected flag and the connection as they are; one
\* that hits a closed connection writes nothing, leaves the connection
\* object in place and sets the connected flag to false; in both cases
\* the handler goes on (nothing is raised).
C34_SendFailsFast ==
    [][SendReturns =>
          /\ ~IsConnected
                => /\ ~Delivered
                   /\ connected' = connected
                   /\ connection' = connection
          /\ (IsConnected /\ connection = "closed")
                => /\ ~Delivered
                   /\ ~connected'
                   /\ connection' = connection
          /\ (IsConnected /\ connection = "open")
                => Delivered /\ connected' /\ connection' = connection]_vars

\* The first send of a stop_instance handler has hit a closed connection
\* or a client not connected, and the handler is at its second send, the
\* connected flag down.
C34_Witness ==
    /\ listen = "send"
    /\ pend.kind = "instance_stopped"
    /\ pend.msg = "error"
    /\ docker[pend.cid].state = "exited"
    /\ ~connected
    /\ connection = "closed"

\* C35: a stop_instance handler sends one instance_stopped: when it
\* resumes from the send of instance_stopped (reason "requested" or
\* "error") it is over, and does not go on to a second send.
C35_OneStoppedEvent ==
    [][listen = "send" /\ pend.kind = "instance_stopped"
          => listen' # "send" \/ pend' = pend]_vars

\* C36: a stop_instance stops no container but the one recorded for its
\* rental_id, and removes the container record of its rental_id only if
\* the container recorded there does not run any more.
C36_StopsOnlyItsContainer ==
    [][StopBegins =>
          /\ \A c \in ContainerIds :
                (docker[c].state = "running" /\ docker'[c].state # "running")
                => /\ pend'.rental \in DOMAIN active_containers
                   /\ active_containers[pend'.rental] = c
          /\ (/\ pend'.rental \in DOMAIN active_containers
              /\ pend'.rental \notin DOMAIN active_containers')
                => docker'[active_containers[pend'.rental]].state
                       # "running"]_vars

\* C37: when a start_instance handler reaches its send of agent_error
\* START_INSTANCE_FAILED, no container it started is running, and its
\* rental_id has no container record it did not have before.
C37_FailedStartLeavesNothing ==
    [][StartBegins /\ pend'.kind = "agent_error" =>
          /\ RunningContainers(docker', pend'.rental)
                \subseteq RunningContainers(docker, pend'.rental)
          /\ Rec(active_containers', pend'.rental)
                = Rec(active_containers, pend'.rental)]_vars

\* The dials that have failed in a row since the last established
\* session (or since the start): each was followed by a sleep, and so
\* was the loss of the session, if there was one.
FailedDialsInARow == Len(delays) - (IF after_loss THEN 1 ELSE 0)

\* C38: when a dial fails, the attempt counter tested against
\* max_reconnect_attempts and used for the backoff delay is the number of
\* dials that have failed in a row, this one included; the loss of a
\* session is not counted, so the first failed dial after a loss sleeps
\* base * 2.
C38_CounterCountsFailedDials ==
    [][DialFails =>
          /\ reconnect_count' = FailedDialsInARow + 1
          /\ rl' = "sleep" =>
                delays'[Len(delays')] =
                    Min(reconnect_delay * (2 ^ Min(FailedDialsInARow + 1, 5)),
                        300)]_vars

\* C39: the rental_ids with a recorded config path are the rental_ids
\* with a recorded tunnel process.
C39_ConfigsMatchTunnels == DOMAIN tunnel_configs = DOMAIN active_tunnels

\* C40: the heartbeat interval in use is at least 1 second.
C40_HeartbeatAtLeastOneSecond == heartbeat_ms >= 1000

====
